---- MODULE Spec2Model ----
(***************************************************************************)
(* Model of scalene/leak_analysis.py: normalized entropy, the Monte Carlo  *)
(* multinomial p-value, the harmonic number and the sequential outlier     *)
(* removal loop (Benjamini-Yekutieli threshold).                           *)
(*                                                                         *)
(* Numbers.  Counts are naturals; the missing marker np.nan is the         *)
(* sentinel NaN.  Real-valued results are kept exactly:                    *)
(*  - a p-value is the pair (k, t): k of the t sampled vectors had no more *)
(*    entropy than the observed one, i.e. the float k / t;                 *)
(*  - alpha is a fraction <<num, den>>;                                    *)
(*  - an entropy is a record: for a vector of len entries summing to n,    *)
(*    -sum(i/n * log(i/n)) / log(len)                                      *)
(*        = (n ln n - ln prod) / (n ln len),  prod = product of i^i,       *)
(*    so (n, len, prod) determines the value, and for equal n and len a    *)
(*    larger prod is a smaller entropy;                                    *)
(*  - a harmonic number is in fixed point, in units of 1 / HScale.         *)
(* Floating-point rounding is not modelled.                                *)
(*                                                                         *)
(* After a removal np.nansum(vec) is a float; rng.multinomial is taken to  *)
(* accept it as the integer count, as the self-test of lines 95-100 needs. *)
(*                                                                         *)
(* State.  vec, alpha, trials: the arguments of outliers (vec is mutated   *)
(* in place, vec0 keeps the vector as passed); m, removed, results, pv,    *)
(* c_m: the locals of outliers; pc: the control position ("call" before    *)
(* line 75, "loop" at the test of line 82, "done" after line 92, "abort"   *)
(* on a failed assertion, "error" on any other exception); failure: the    *)
(* exception raised; calls: the calls of multinomial_pvalue made so far,   *)
(* each with its vector, its trial count and its outcome; arg, ret: the    *)
(* argument and result of a pure function called on its own.               *)
(***************************************************************************)
EXTENDS Integers, Sequences, FiniteSets

VARIABLES vec, vec0, alpha, trials, m, removed, results, pv, c_m, pc, failure,
          calls, arg, ret

vars == <<vec, vec0, alpha, trials, m, removed, results, pv, c_m, pc, failure,
          calls, arg, ret>>

(* ---------------- bounds of the model ---------------- *)
MaxLen == 3
MaxCount == 3
MaxTotal == 5
PvGrid == 4
MaxN == 104

(* ---------------- program constants ---------------- *)
NaN == -1
DefaultTrials == 2000
OutliersDefaultTrials == 3000
AsymptoticFrom == 100
HScale == 2520 * 4000
\* 0.5772156649015329 and ln(100) = 4.605170185988092, in units of 1 / HScale
GammaScaled == 5818334
Ln100Scaled == 46420115

Alphas == {<<1, 100>>, <<1, 2>>, <<9, 10>>}
TrialChoices == {1, OutliersDefaultTrials}

(* ---------------- helpers ---------------- *)
RECURSIVE nansum(_)
nansum(v) ==
    IF Len(v) = 0 THEN 0
    ELSE (IF Head(v) = NaN THEN 0 ELSE Head(v)) + nansum(Tail(v))

isnan(x) == x = NaN

NonMissing(v) == SelectSeq(v, LAMBDA x : ~isnan(x))

HasNaN(v) == \E i \in 1..Len(v) : isnan(v[i])

RECURSIVE GCD(_, _)
GCD(a, b) == IF b = 0 THEN a ELSE GCD(b, a % b)

Values == {NaN} \cup (0..MaxCount)

Vectors ==
    {v \in UNION {[1..n -> Values] : n \in 0..MaxLen} : nansum(v) <= MaxTotal}

(* ---------------- log / xform / normalized_entropy ---------------- *)
\* exp(i * log(i)) with log redefined so that log(0) = 0: the factor of the
\* entry i in prod.
xform(i) == IF i = 0 THEN 1 ELSE i ^ i

RECURSIVE XformProduct(_)
XformProduct(v) ==
    IF Len(v) = 0 THEN 1 ELSE xform(Head(v)) * XformProduct(Tail(v))

EntropyOne == [kind |-> "one", n |-> 0, len |-> 0, prod |-> 0]
EntropyNaN == [kind |-> "nan", n |-> 0, len |-> 0, prod |-> 0]
AssertLen == [kind |-> "assert_len", n |-> 0, len |-> 0, prod |-> 0]
AssertMass == [kind |-> "assert_mass", n |-> 0, len |-> 0, prod |-> 0]

normalized_entropy(v) ==
    IF ~(Len(v) > 0) THEN AssertLen
    ELSE IF Len(v) = 1 THEN EntropyOne
    ELSE LET n == nansum(v)
         IN  IF ~(n > 0) THEN AssertMass
             ELSE IF HasNaN(v) THEN EntropyNaN
             ELSE [kind |-> "val", n |-> n, len |-> Len(v),
                   prod |-> XformProduct(v)]

IsAssert(e) == e.kind \in {"assert_len", "assert_mass"}

\* normalized_entropy(v) <= ne, for a sampled v and the observed ne
EntLeq_strict(a, b) ==
    IF a.kind = "nan" \/ b.kind = "nan" THEN FALSE
    ELSE IF a.kind = "one" /\ b.kind = "one" THEN FALSE
    ELSE a.prod > b.prod

EntLeq(a, b) ==
    IF a.kind = "nan" \/ b.kind = "nan" THEN FALSE
    ELSE IF a.kind = "one" /\ b.kind = "one" THEN TRUE
    ELSE a.prod >= b.prod

(* ---------------- multinomial_pvalue ---------------- *)
\* the vectors rng.multinomial(n, [1/k, ..., 1/k]) can draw
Multinomial(n, k) == {s \in [1..k -> 0..n] : nansum(s) = n}

\* the numerators k / t the model draws for a p-value
Counts(t) == {(j * t) \div PvGrid : j \in 0..PvGrid}

multinomial_pvalue(v, t) ==
    LET n == nansum(v)
        newvec == NonMissing(v)
        k == Len(newvec)
        ne == normalized_entropy(newvec)
    IN  IF IsAssert(ne)
        THEN {[kind |-> ne.kind, k |-> 0, t |-> t]}
        ELSE LET S == Multinomial(n, k)
                 Low == {s \in S : EntLeq(normalized_entropy(s), ne)}
             IN  {[kind |-> "pv", k |-> c, t |-> t] :
                    c \in {c \in Counts(t) : /\ (c > 0 => Low # {})
                                             /\ (c < t => Low # S)}}

(* ---------------- argmax ---------------- *)
nanmax(v) ==
    IF \A i \in 1..Len(v) : isnan(v[i]) THEN NaN
    ELSE CHOOSE x \in {v[i] : i \in 1..Len(v)} :
            ~isnan(x) /\ \A i \in 1..Len(v) : isnan(v[i]) \/ v[i] <= x

SetMin(S) == CHOOSE x \in S : \A y \in S : x <= y
SetMax(S) == CHOOSE x \in S : \A y \in S : y <= x

\* indices are 0-based as in the source; position i of the source is v[i + 1]
argmax_last(v) ==
    LET mx == nanmax(v)
        hits == {i \in 1..Len(v) : ~isnan(v[i]) /\ ~isnan(mx) /\ v[i] = mx}
    IN  IF hits = {} THEN 0 ELSE SetMax(hits) - 1

argmax(v) ==
    LET mx == nanmax(v)
        hits == {i \in 1..Len(v) : ~isnan(v[i]) /\ ~isnan(mx) /\ v[i] = mx}
    IN  IF hits = {} THEN 0 ELSE SetMin(hits) - 1

(* ---------------- harmonic_number ---------------- *)
RECURSIVE SumRecip(_, _)
SumRecip(lo, hi) ==
    IF hi < lo THEN 0 ELSE HScale \div hi + SumRecip(lo, hi - 1)

\* math.log(n) for n >= 100: ln 100 + 2 atanh((n - 100) / (n + 100)),
\* two terms of the series (exact to 1 / HScale for n = 100, to about
\* 2e-7 up to n = 110)
LogScaled(n) ==
    LET a == n - AsymptoticFrom
        b == n + AsymptoticFrom
        z == (2 * HScale * a) \div b
    IN  Ln100Scaled + z + (z * a * a) \div (3 * b * b)

harmonic_number(n) ==
    IF n < AsymptoticFrom
    THEN SumRecip(2, n)
    ELSE GammaScaled + LogScaled(n) + HScale \div (2 * n)
         - HScale \div (12 * n * n) + (HScale \div (120 * n * n)) \div (n * n)

(* ---------------- outliers ---------------- *)
\* m * c_m = 0: the division of the loop condition raises
ThresholdUndefined(len, c) == len * c = 0

\* pv <= alpha * (removed + 1) / (m * c_m), cross-multiplied
ThresholdMet_loose(p, a, r, len, c) ==
    LET g == GCD(c, HScale)
    IN  p.k * a[2] * len * (c \div g) <= p.t * a[1] * (r + 2) * (HScale \div g)

ThresholdMet(p, a, r, len, c) ==
    LET g == GCD(c, HScale)
    IN  p.k * a[2] * len * (c \div g) <= p.t * a[1] * (r + 1) * (HScale \div g)

\* vec[max_index] = np.nan
SetMissing_noop(v, i) == v

SetMissing(v, i) == [v EXCEPT ![i + 1] = NaN]

\* the re-test of the loop passes no trial count
RetestTrials_caller(t) == t

RetestTrials(t) == DefaultTrials

NoPv == [k |-> 0, t |-> 0]

Init ==
    /\ vec \in Vectors
    /\ vec0 = vec
    /\ alpha \in Alphas
    /\ trials \in TrialChoices
    /\ m = 0
    /\ removed = 0
    /\ results = <<>>
    /\ pv = NoPv
    /\ c_m = 0
    /\ pc = "call"
    /\ failure = "none"
    /\ calls = <<>>
    /\ arg = 0
    /\ ret = 0

\* the outcome of one Tester call: a p-value and on to the loop test, or the
\* failed assertion
Tested(v, t, out) ==
    /\ calls' = Append(calls, [vec |-> v, trials |-> t, out |-> out])
    /\ IF out.kind = "pv"
       THEN /\ pv' = [k |-> out.k, t |-> out.t]
            /\ pc' = "loop"
            /\ failure' = "none"
       ELSE /\ pv' = pv
            /\ pc' = "abort"
            /\ failure' = out.kind

\* lines 75-81
Start ==
    /\ pc = "call"
    /\ m' = Len(vec)
    /\ removed' = 0
    /\ results' = <<>>
    /\ \E out \in multinomial_pvalue(vec, trials) :
          /\ Tested(vec, trials, out)
          /\ c_m' = IF out.kind = "pv" THEN harmonic_number(Len(vec)) ELSE c_m
    /\ UNCHANGED <<vec, vec0, alpha, trials, arg, ret>>

\* line 82 raising ZeroDivisionError
ThresholdError ==
    /\ pc = "loop"
    /\ ThresholdUndefined(m, c_m)
    /\ pc' = "error"
    /\ failure' = "zero_division"
    /\ UNCHANGED <<vec, vec0, alpha, trials, m, removed, results, pv, c_m,
                   calls, arg, ret>>

\* line 82 true, lines 86-91
Iterate ==
    /\ pc = "loop"
    /\ ~ThresholdUndefined(m, c_m)
    /\ ThresholdMet(pv, alpha, removed, m, c_m)
    /\ removed < m
    /\ LET max_index == argmax(vec)
           newvec == SetMissing(vec, max_index)
       IN  /\ results' = Append(results, [index |-> max_index, pv |-> pv])
           /\ vec' = newvec
           /\ removed' = removed + 1
           /\ IF removed + 1 < m
              THEN \E out \in multinomial_pvalue(newvec, RetestTrials(trials)) :
                      Tested(newvec, RetestTrials(trials), out)
              ELSE UNCHANGED <<pv, pc, failure, calls>>
    /\ UNCHANGED <<vec0, alpha, trials, m, c_m, arg, ret>>

\* line 82 false, line 92
Return ==
    /\ pc = "loop"
    /\ ~ThresholdUndefined(m, c_m)
    /\ ~(ThresholdMet(pv, alpha, removed, m, c_m) /\ removed < m)
    /\ pc' = "done"
    /\ UNCHANGED <<vec, vec0, alpha, trials, m, removed, results, pv, c_m,
                   failure, calls, arg, ret>>

Next == Start \/ ThresholdError \/ Iterate \/ Return

Spec == Init /\ [][Next]_vars

(* ---------------- the pure functions on their own ---------------- *)
NotCalled == [kind |-> "none", n |-> 0, len |-> 0, prod |-> 0]

Idle ==
    /\ vec = <<>>
    /\ vec0 = <<>>
    /\ alpha = <<1, 100>>
    /\ trials = DefaultTrials
    /\ m = 0
    /\ removed = 0
    /\ results = <<>>
    /\ pv = NoPv
    /\ c_m = 0
    /\ failure = "none"
    /\ calls = <<>>

InitEntropy ==
    /\ Idle
    /\ pc = "call"
    /\ arg \in Vectors
    /\ ret = NotCalled

CallEntropy ==
    /\ pc = "call"
    /\ ret' = normalized_entropy(arg)
    /\ pc' = "done"
    /\ UNCHANGED <<vec, vec0, alpha, trials, m, removed, results, pv, c_m,
                   failure, calls, arg>>

SpecEntropy == InitEntropy /\ [][CallEntropy]_vars

InitHarmonic ==
    /\ Idle
    /\ pc = "call"
    /\ arg \in 1..MaxN
    /\ ret = 0

CallHarmonic ==
    /\ pc = "call"
    /\ ret' = harmonic_number(arg)
    /\ pc' = "done"
    /\ UNCHANGED <<vec, vec0, alpha, trials, m, removed, results, pv, c_m,
                   failure, calls, arg>>

SpecHarmonic == InitHarmonic /\ [][CallHarmonic]_vars

(* ---------------- properties ---------------- *)
Indices == {results[i].index : i \in 1..Len(results)}

\* i (0-based) is the first position of the largest non-missing entry of v
IsFirstMax(v, i) ==
    /\ i + 1 \in 1..Len(v)
    /\ v[i + 1] # NaN
    /\ \A j \in 1..Len(v) : v[j] # NaN => v[j] <= v[i + 1]
    /\ \A j \in 1..i : v[j] = NaN \/ v[j] < v[i + 1]

RECURSIVE Factorial(_)
Factorial(n) == IF n <= 1 THEN 1 ELSE n * Factorial(n - 1)

RECURSIVE SumOver(_, _)
SumOver(n, d) == IF d < 2 THEN 0 ELSE n \div d + SumOver(n, d - 1)

\* 1/2 + ... + 1/len as the fraction BYNum(len) / Factorial(len)
BYNum(len) == SumOver(Factorial(len), len)

\* p <= alpha * (k + 1) / (len * (1/2 + ... + 1/len)), len >= 2
BYBound(p, k, len) ==
    p.k * alpha[2] * len * BYNum(len)
        <= p.t * alpha[1] * (k + 1) * Factorial(len)

\* alpha / harmonic_number(m) < 1
AlphaBelowHarmonic == alpha[1] * Factorial(m) < alpha[2] * BYNum(m)

Smaller(a, b) == IF a < b THEN a ELSE b

\* C1: a removed index is never chosen again (the returned indices are
\* pairwise distinct and are the missing positions of vec), `removed` counts
\* the records, grows by exactly 1 with every removal and never exceeds m.
C1_Counted ==
    /\ removed = Len(results)
    /\ removed <= Len(vec0)
    /\ pc # "call" => m = Len(vec0)
    /\ Cardinality(Indices) = Len(results)
    /\ \A i \in Indices : i + 1 \in 1..Len(vec) /\ vec[i + 1] = NaN /\ vec0[i + 1] # NaN

C1_RemovedOnce ==
    /\ []C1_Counted
    /\ [][results' # results =>
            /\ removed' = removed + 1
            /\ Len(results') = Len(results) + 1
            /\ results'[Len(results')].index \notin Indices
            /\ vec[results'[Len(results')].index + 1] # NaN]_vars

C1_Witness == pc = "done" /\ Len(results) >= 2 /\ removed < m

\* C2: the k-th record's p-value is within alpha * (k + 1) / (m * c_m) for
\* the original length m, and a completed run stopped because all m entries
\* were removed or the current p-value exceeds the current threshold.
C2_Threshold ==
    /\ \A k \in 1..Len(results) : BYBound(results[k].pv, k - 1, Len(vec0))
    /\ pc = "done" => removed = m \/ ~BYBound(pv, removed, Len(vec0))

C2_Witness ==
    /\ pc = "done"
    /\ Len(results) >= 2
    /\ results[2].pv.k > 0
    /\ removed < m

\* C3: every appended index is the first position of the largest non-missing
\* entry of the vector at that time, records are appended in removal order,
\* and the first record is the first position of the input's maximum.
C3_FirstMax ==
    /\ [][results' # results =>
            /\ SubSeq(results', 1, Len(results)) = results
            /\ IsFirstMax(vec, results'[Len(results')].index)]_vars
    /\ [](results # <<>> => IsFirstMax(vec0, results[1].index))

C3_Witness ==
    /\ Len(results) >= 2
    /\ \E i, j \in 1..Len(vec0) :
          i < j /\ vec0[i] = vec0[j] /\ results[1].index = i - 1
                /\ results[2].index = j - 1

\* C4 as stated: the first Tester call precedes any removal and uses the
\* caller's trials, later calls use 2000, and the Tester is called
\* 1 + min(removals, m - 1) times.
C4_Original ==
    pc # "call" =>
        /\ calls[1].trials = trials /\ calls[1].vec = vec0
        /\ \A i \in 2..Len(calls) : calls[i].trials = 2000
        /\ Len(calls) = 1 + Smaller(Len(results), m - 1)

\* C4 amended: the same, the count for m >= 1 (on the empty vector the one
\* call is made and aborts).
C4_Calls ==
    pc # "call" =>
        /\ calls[1].trials = trials /\ calls[1].vec = vec0
        /\ \A i \in 2..Len(calls) : calls[i].trials = 2000
        /\ m >= 1 => Len(calls) = 1 + Smaller(Len(results), m - 1)
        /\ m = 0 => Len(calls) = 1

C4_Witness ==
    /\ pc = "done"
    /\ removed = m
    /\ Len(calls) = m
    /\ m >= 2
    /\ trials # DefaultTrials

\* C5: the Tester returns no p-value on a vector of total mass <= 0 or
\* without a non-missing entry, so outliers never completes on a vector of
\* total mass 0.
C5_ZeroMassAborts ==
    /\ \A i \in 1..Len(calls) :
          (nansum(calls[i].vec) <= 0 \/ Len(NonMissing(calls[i].vec)) = 0)
              => calls[i].out.kind # "pv"
    /\ nansum(vec0) = 0 => pc # "done"

\* C6: a call completes or aborts on one of the listed precondition
\* violations (empty vector in the entropy, total mass <= 0); nothing else
\* fails, a positive vector of length 1 included.
C6_OnlyListedFailures ==
    /\ failure \in {"none", "assert_len", "assert_mass"}
    /\ pc # "error"

\* C7: a call that aborts has removed nothing: no record is appended and no
\* entry overwritten.
C7_NoPartialFailure ==
    pc \in {"abort", "error"} => results = <<>> /\ vec = vec0

\* C8: normalized_entropy ignores missing entries: 1 when exactly one entry
\* is non-missing, and in general the result on the filtered vector.
C8_IgnoresMissing ==
    (ret # NotCalled /\ Len(NonMissing(arg)) >= 1) =>
        /\ Len(NonMissing(arg)) = 1 => ret = EntropyOne
        /\ ret = normalized_entropy(NonMissing(arg))

\* C9: harmonic_number(100) is within a relative 1e-4 of
\* harmonic_number(99) + 1/100, and harmonic_number is increasing.
AbsDiff(a, b) == IF a < b THEN b - a ELSE a - b

C9_Continuous ==
    pc = "done" =>
        /\ arg = AsymptoticFrom =>
              AbsDiff(ret, harmonic_number(arg - 1) + HScale \div arg)
                  < ret \div 10000
        /\ arg >= 2 => harmonic_number(arg - 1) < ret

\* C10: with exactly one non-missing entry the Tester returns exactly 1, and
\* a completed run on m >= 2 entries with alpha / harmonic_number(m) < 1
\* returns fewer than m records and leaves an entry non-missing.
C10_KeepsOne ==
    /\ \A i \in 1..Len(calls) :
          Len(NonMissing(calls[i].vec)) = 1 =>
              calls[i].out.kind = "pv" /\ calls[i].out.k = calls[i].out.t
    /\ (pc = "done" /\ m >= 2 /\ AlphaBelowHarmonic) =>
          Len(results) < m /\ NonMissing(vec) # <<>>

C10_Witness ==
    /\ pc = "done"
    /\ m >= 3
    /\ AlphaBelowHarmonic
    /\ Len(results) = m - 1
    /\ Len(NonMissing(vec)) = 1

====
